---- MODULE Spec2Model ----
(***************************************************************************)
(* pyOutlook/core/folders.py: the Folder client of the Outlook REST API.   *)
(*                                                                         *)
(* A Python string is a sequence of units (a character, or a run of        *)
(* characters that is never split, such as an id), and + on strings is     *)
(* \o.  A JSON object is a function from its keys to its values.  A call   *)
(* of a method of Folder is two steps: the request is sent (the method     *)
(* blocks in requests.<verb>), then the response arrives and the rest of   *)
(* the method runs on it.                                                  *)
(***************************************************************************)
EXTENDS Integers, Sequences, FiniteSets, TLC

VARIABLES
    access_token,   \* account -> the string its access_token attribute holds
    heap,           \* the Folder instances the caller holds, by reference (index)
    pc,             \* "idle", or the method blocked in its HTTP request
    frame,          \* the running (or last) call: method, receiver, argument
    sent,           \* the HTTP request that call has on the wire, unanswered
    nsent,          \* how many HTTP requests that call has issued
    resp,           \* the response that call received
    ret             \* what that call returned or raised

vars == <<access_token, heap, pc, frame, sent, nsent, resp, ret>>

-----------------------------------------------------------------------------
(* Bounds *)

MaxHeap == 2    \* Folder instances the caller holds on to
MaxList == 2    \* longest "value" array in a response
MaxCount == 1   \* largest item count in a folder JSON object

-----------------------------------------------------------------------------
(* Inputs *)

Accounts == {"acct1", "acct2"}
Tokens == {<<"tok0">>, <<"tok1">>}

\* Status codes: both edges of the band (399, 452), the codes next to the
\* edges, 401, 404, a 2xx and a 5xx.
Statuses == {200, 399, 400, 401, 404, 451, 452, 500}

\* Caller-supplied strings (a name or a destination id): a plain one, one
\* holding a double quote, one ending in a backslash.
ArgStrings == {<<"Archive">>, <<"a", "\"", "b">>, <<"a", "\\">>}

NoArg == <<>>

FolderJSON(i, n, p, c, u, t) ==
    [Id |-> i, DisplayName |-> n, ParentFolderId |-> p,
     ChildFolderCount |-> c, UnreadItemCount |-> u, TotalItemCount |-> t]

\* Folder objects a response may hold: two complete ones (the second with a
\* field the client does not know), and one that lacks TotalItemCount.
FA == FolderJSON(<<"AAA">>, <<"Archive">>, <<"root">>, 0, 1, 2)
FB == [Id |-> <<"BBB">>, DisplayName |-> <<"Inbox">>, ParentFolderId |-> <<"AAA">>,
       ChildFolderCount |-> 3, UnreadItemCount |-> 4, TotalItemCount |-> 5,
       WellKnownName |-> <<"inbox">>]
FC == [Id |-> <<"CCC">>, DisplayName |-> <<"Drafts">>, ParentFolderId |-> <<"root">>,
       ChildFolderCount |-> 0, UnreadItemCount |-> 0]

RECURSIVE SeqsUpTo(_, _)
SeqsUpTo(S, n) ==
    IF n = 0 THEN {<<>>}
    ELSE LET shorter == SeqsUpTo(S, n - 1)
         IN shorter \cup {Append(s, x) : s \in shorter, x \in S}

ListJSON == {[value |-> s] : s \in SeqsUpTo({FA, FB}, MaxList) \cup {<<FA, FC>>}}

\* A response body is text that is not JSON, or the JSON value it encodes.
NotJSON == [kind |-> "text"]
JSONBody(v) == [kind |-> "json", value |-> v]
Bodies == {NotJSON} \cup {JSONBody(v) : v \in {FA, FB, FC} \cup ListJSON}

Responses == [status_code : Statuses, body : Bodies]

NoResponse == [status_code |-> 0, body |-> NotJSON]

-----------------------------------------------------------------------------
(* Values a call ends with: what it returns, or the exception it raises. *)

ReturnNone == [kind |-> "None"]
ReturnFolder(f) == [kind |-> "Folder", folder |-> f]
ReturnFolders(fs) == [kind |-> "Folders", folders |-> fs]
ReturnMessages(ms) == [kind |-> "Messages", messages |-> ms]
AuthError(message) == [kind |-> "AuthError", message |-> message]
ValueError == [kind |-> "ValueError"]
KeyError(key) == [kind |-> "KeyError", key |-> key]

\* How a call ends: its outcome, and whether it called r.json() on the way.
Outcome(json_called, outcome) == [json_called |-> json_called] @@ outcome

Pending == Outcome(FALSE, [kind |-> "pending"])

\* str(int) of a non-negative integer: its decimal digits.
Digits == <<"0", "1", "2", "3", "4", "5", "6", "7", "8", "9">>

RECURSIVE str(_)
str(n) == IF n < 10 THEN <<Digits[n + 1]>>
          ELSE Append(str(n \div 10), Digits[(n % 10) + 1])

-----------------------------------------------------------------------------
(* class Folder *)

Folder(account, folder_id, folder_name, parent_id, child_folder_count, unread_count, total_items) ==
    [account |-> account,
     parent_id |-> parent_id,
     child_folder_count |-> child_folder_count,
     unread_count |-> unread_count,
     total_items |-> total_items,
     name |-> folder_name,
     id |-> folder_id]

\* Mutant: the header holds the token the Account had when the Folder was
\* built, not the one it has now.
headers_cached(self) ==
    ("Authorization" :> <<"Bearer ", "tok0">>)
    @@ ("Content-Type" :> <<"application/json">>)

headers(self) ==
    ("Authorization" :> (<<"Bearer ">> \o access_token[self.account]))
    @@ ("Content-Type" :> <<"application/json">>)

\* json_value[key] raises KeyError(key) when the key is absent; the six
\* subscripts are evaluated left to right.
FolderKeys == <<"Id", "DisplayName", "ParentFolderId", "ChildFolderCount",
                "UnreadItemCount", "TotalItemCount">>

FirstMissing(json_value, keys) ==
    LET absent == {k \in DOMAIN keys : keys[k] \notin DOMAIN json_value}
    IN IF absent = {} THEN 0 ELSE CHOOSE k \in absent : \A m \in absent : k <= m

\* Mutant: Id and DisplayName handed to the constructor in each other's place.
_json_to_folder_swapped(account, json_value) ==
    LET k == FirstMissing(json_value, FolderKeys)
    IN IF k # 0 THEN KeyError(FolderKeys[k])
       ELSE ReturnFolder(Folder(account, json_value["DisplayName"], json_value["Id"],
                                json_value["ParentFolderId"], json_value["ChildFolderCount"],
                                json_value["UnreadItemCount"], json_value["TotalItemCount"]))

_json_to_folder(account, json_value) ==
    LET k == FirstMissing(json_value, FolderKeys)
    IN IF k # 0 THEN KeyError(FolderKeys[k])
       ELSE ReturnFolder(Folder(account, json_value["Id"], json_value["DisplayName"],
                                json_value["ParentFolderId"], json_value["ChildFolderCount"],
                                json_value["UnreadItemCount"], json_value["TotalItemCount"]))

\* Mutant: the Folders are collected back to front.
_json_to_folders_reversed(account, json_value) ==
    IF "value" \notin DOMAIN json_value THEN KeyError("value")
    ELSE LET n == Len(json_value["value"])
             each == [k \in 1..n |->
                         _json_to_folder(account, json_value["value"][n + 1 - k])]
             failed == {k \in DOMAIN each : each[k].kind = "KeyError"}
         IN IF failed # {}
            THEN each[CHOOSE k \in failed : \A m \in failed : k >= m]
            ELSE ReturnFolders([k \in DOMAIN each |-> each[k].folder])

_json_to_folders(account, json_value) ==
    IF "value" \notin DOMAIN json_value THEN KeyError("value")
    ELSE LET each == [k \in 1..Len(json_value["value"]) |->
                         _json_to_folder(account, json_value["value"][k])]
             failed == {k \in DOMAIN each : each[k].kind = "KeyError"}
         IN IF failed # {}
            THEN each[CHOOSE k \in failed : \A m \in failed : k <= m]
            ELSE ReturnFolders([k \in DOMAIN each |-> each[k].folder])

\* Message._json_to_messages(account, json_value): one Message per element of
\* the "value" array, each tied to the account.
Message_json_to_messages(account, json_value) ==
    IF "value" \notin DOMAIN json_value THEN KeyError("value")
    ELSE ReturnMessages([k \in 1..Len(json_value["value"]) |->
                            [account |-> account, json |-> json_value["value"][k]]])

-----------------------------------------------------------------------------
(* requests.<verb>(url, headers=..., data=...) *)

MailFolders == <<"https://outlook.office.com/api/v2.0/me/MailFolders/">>

patch(url, hdrs, data) == [method |-> "PATCH", url |-> url, headers |-> hdrs, data |-> data]
post(url, hdrs, data) == [method |-> "POST", url |-> url, headers |-> hdrs, data |-> data]
get(url, hdrs) == [method |-> "GET", url |-> url, headers |-> hdrs]
delete(url, hdrs) == [method |-> "DELETE", url |-> url, headers |-> hdrs]

\* The method sends req and blocks until the response arrives.
Send(op, i, arg, req) ==
    /\ pc = "idle"
    /\ pc' = op
    /\ frame' = [op |-> op, self |-> i, arg |-> arg]
    /\ sent' = <<req>>
    /\ nsent' = 1
    /\ resp' = NoResponse
    /\ ret' = Pending
    /\ UNCHANGED <<access_token, heap>>

\* The response r answers the request and the method ends with outcome; its
\* locals (the argument among them) are gone.
Finish(r, outcome) ==
    /\ pc' = "idle"
    /\ frame' = [frame EXCEPT !.arg = NoArg]
    /\ sent' = <<>>
    /\ resp' = r
    /\ ret' = outcome
    /\ UNCHANGED <<access_token, heap, nsent>>

\* r.json(): the decoded body; it raises ValueError when the body is not JSON.
json_raises(r) == r.body.kind # "json"
json(r) == r.body.value

AccessTokenError(status_code) ==
    <<"Access Token Error, Received ">> \o str(status_code)
        \o <<" from Outlook REST Endpoint">>

-----------------------------------------------------------------------------
(* rename_folder *)

rename_folder_request(self, new_folder_name) ==
    LET hdrs == headers(self)
        endpoint == MailFolders \o self.id
        payload == <<"{", " ", "\"", "DisplayName", "\"", ":", " ", "\"">>
                       \o new_folder_name \o <<"\"", "}">>
    IN patch(endpoint, hdrs, payload)

rename_folder_response(self, r) ==
    IF 399 < r.status_code /\ r.status_code < 452
    THEN Outcome(FALSE, AuthError(AccessTokenError(r.status_code)))
    ELSE IF json_raises(r) THEN Outcome(TRUE, ValueError)
         ELSE Outcome(TRUE, _json_to_folder(self.account, json(r)))

rename_folder_call(i, new_folder_name) ==
    Send("rename_folder", i, new_folder_name,
         rename_folder_request(heap[i], new_folder_name))

\* Mutant: a status in the band makes the method send its request once more.
rename_folder_return_retry ==
    /\ pc = "rename_folder"
    /\ \E r \in Responses :
           IF 399 < r.status_code /\ r.status_code < 452 /\ nsent = 1
           THEN /\ nsent' = nsent + 1
                /\ UNCHANGED <<access_token, heap, pc, frame, sent, resp, ret>>
           ELSE Finish(r, rename_folder_response(heap[frame.self], r))

\* Mutant: the receiver takes the new name itself.
rename_folder_return_in_place ==
    /\ pc = "rename_folder"
    /\ \E r \in Responses :
           LET outcome == rename_folder_response(heap[frame.self], r)
           IN /\ pc' = "idle"
              /\ frame' = [frame EXCEPT !.arg = NoArg]
              /\ sent' = <<>>
              /\ resp' = r
              /\ ret' = outcome
              /\ heap' = IF outcome.kind = "Folder"
                         THEN [heap EXCEPT ![frame.self].name = outcome.folder.name]
                         ELSE heap
              /\ UNCHANGED <<access_token, nsent>>

rename_folder_return ==
    /\ pc = "rename_folder"
    /\ \E r \in Responses : Finish(r, rename_folder_response(heap[frame.self], r))

-----------------------------------------------------------------------------
(* get_subfolders *)

get_subfolders_request(self) ==
    LET hdrs == headers(self)
        endpoint == MailFolders \o self.id \o <<"/childfolders">>
    IN get(endpoint, hdrs)

get_subfolders_response(self, r) ==
    IF 399 < r.status_code /\ r.status_code < 452
    THEN Outcome(FALSE, AuthError(AccessTokenError(r.status_code)))
    ELSE IF json_raises(r) THEN Outcome(TRUE, ValueError)
         ELSE Outcome(TRUE, _json_to_folders(self.account, json(r)))

get_subfolders_call(i) ==
    Send("get_subfolders", i, NoArg, get_subfolders_request(heap[i]))

get_subfolders_return ==
    /\ pc = "get_subfolders"
    /\ \E r \in Responses : Finish(r, get_subfolders_response(heap[frame.self], r))

-----------------------------------------------------------------------------
(* delete_folder *)

delete_folder_request(self) ==
    LET hdrs == headers(self)
        endpoint == MailFolders \o self.id
    IN delete(endpoint, hdrs)

\* Mutant: AuthError on 401 alone, as the docstring words it.
delete_folder_response_only_401(self, r) ==
    IF r.status_code = 401
    THEN Outcome(FALSE, AuthError(AccessTokenError(r.status_code)))
    ELSE Outcome(FALSE, ReturnNone)

delete_folder_response(self, r) ==
    IF 399 < r.status_code /\ r.status_code < 452
    THEN Outcome(FALSE, AuthError(AccessTokenError(r.status_code)))
    ELSE Outcome(FALSE, ReturnNone)

delete_folder_call(i) ==
    Send("delete_folder", i, NoArg, delete_folder_request(heap[i]))

delete_folder_return ==
    /\ pc = "delete_folder"
    /\ \E r \in Responses : Finish(r, delete_folder_response(heap[frame.self], r))

-----------------------------------------------------------------------------
(* move_folder *)

move_folder_request(self, destination_folder) ==
    LET hdrs == headers(self)
        endpoint == MailFolders \o self.id \o <<"/move">>
        payload == <<"{", " ", "\"", "DestinationId", "\"", ":", " ", "\"">>
                       \o destination_folder \o <<"\"", "}">>
    IN post(endpoint, hdrs, payload)

\* Mutant: the band has no upper edge, so a 5xx raises AuthError too.
move_folder_response_no_upper_edge(self, r) ==
    IF 399 < r.status_code
    THEN Outcome(FALSE, AuthError(AccessTokenError(r.status_code)))
    ELSE IF json_raises(r) THEN Outcome(TRUE, ValueError)
         ELSE Outcome(TRUE, _json_to_folder(self.account, json(r)))

move_folder_response(self, r) ==
    IF 399 < r.status_code /\ r.status_code < 452
    THEN Outcome(FALSE, AuthError(AccessTokenError(r.status_code)))
    ELSE IF json_raises(r) THEN Outcome(TRUE, ValueError)
         ELSE Outcome(TRUE, _json_to_folder(self.account, json(r)))

move_folder_call(i, destination_folder) ==
    Send("move_folder", i, destination_folder,
         move_folder_request(heap[i], destination_folder))

move_folder_return ==
    /\ pc = "move_folder"
    /\ \E r \in Responses : Finish(r, move_folder_response(heap[frame.self], r))

-----------------------------------------------------------------------------
(* copy_folder *)

copy_folder_request(self, destination_folder) ==
    LET hdrs == headers(self)
        endpoint == MailFolders \o self.id \o <<"/copy">>
        payload == <<"{", " ", "\"", "DestinationId", "\"", ":", " ", "\"">>
                       \o destination_folder \o <<"\"", "}">>
    IN post(endpoint, hdrs, payload)

\* Mutant: the new Folder is built without the receiver's account.
copy_folder_response_unbound(self, r) ==
    IF 399 < r.status_code /\ r.status_code < 452
    THEN Outcome(FALSE, AuthError(AccessTokenError(r.status_code)))
    ELSE IF json_raises(r) THEN Outcome(TRUE, ValueError)
         ELSE Outcome(TRUE, _json_to_folder("None", json(r)))

copy_folder_response(self, r) ==
    IF 399 < r.status_code /\ r.status_code < 452
    THEN Outcome(FALSE, AuthError(AccessTokenError(r.status_code)))
    ELSE IF json_raises(r) THEN Outcome(TRUE, ValueError)
         ELSE Outcome(TRUE, _json_to_folder(self.account, json(r)))

copy_folder_call(i, destination_folder) ==
    Send("copy_folder", i, destination_folder,
         copy_folder_request(heap[i], destination_folder))

copy_folder_return ==
    /\ pc = "copy_folder"
    /\ \E r \in Responses : Finish(r, copy_folder_response(heap[frame.self], r))

-----------------------------------------------------------------------------
(* create_child_folder *)

create_child_folder_request(self, folder_name) ==
    LET hdrs == headers(self)
        endpoint == MailFolders \o self.id \o <<"/childfolders">>
        payload == <<"{", " ", "\"", "DisplayName", "\"", ":", " ", "\"">>
                       \o folder_name \o <<"\"", "}">>
    IN post(endpoint, hdrs, payload)

create_child_folder_response(self, r) ==
    IF 399 < r.status_code /\ r.status_code < 452
    THEN Outcome(FALSE, AuthError(AccessTokenError(r.status_code)))
    ELSE IF json_raises(r) THEN Outcome(TRUE, ValueError)
         ELSE Outcome(TRUE, _json_to_folder(self.account, json(r)))

create_child_folder_call(i, folder_name) ==
    Send("create_child_folder", i, folder_name,
         create_child_folder_request(heap[i], folder_name))

create_child_folder_return ==
    /\ pc = "create_child_folder"
    /\ \E r \in Responses : Finish(r, create_child_folder_response(heap[frame.self], r))

-----------------------------------------------------------------------------
(* messages *)

messages_request(self) ==
    LET hdrs == headers(self)
    IN get(MailFolders \o self.id \o <<"/messages">>, hdrs)

\* Mutant: the status test of the other six methods, pasted into messages.
messages_response_band(self, r) ==
    IF 399 < r.status_code /\ r.status_code < 452
    THEN Outcome(FALSE, AuthError(AccessTokenError(r.status_code)))
    ELSE IF json_raises(r) THEN Outcome(TRUE, ValueError)
         ELSE Outcome(TRUE, Message_json_to_messages(self.account, json(r)))

messages_response(self, r) ==
    IF r.status_code = 401
    THEN Outcome(FALSE, AuthError(<<"Access Token Error, Received 401 from Outlook REST Endpoint">>))
    ELSE IF json_raises(r) THEN Outcome(TRUE, ValueError)
         ELSE Outcome(TRUE, Message_json_to_messages(self.account, json(r)))

messages_call(i) ==
    Send("messages", i, NoArg, messages_request(heap[i]))

messages_return ==
    /\ pc = "messages"
    /\ \E r \in Responses : Finish(r, messages_response(heap[frame.self], r))

-----------------------------------------------------------------------------
(* The caller and the Account *)

\* The caller holds on to a Folder a call returned, to call methods on it later.
KeepFolder ==
    /\ pc = "idle"
    /\ ret.kind = "Folder"
    /\ Len(heap) < MaxHeap
    /\ heap' = Append(heap, ret.folder)
    /\ UNCHANGED <<access_token, pc, frame, sent, nsent, resp, ret>>

KeepSubfolder(k) ==
    /\ pc = "idle"
    /\ ret.kind = "Folders"
    /\ k \in 1..Len(ret.folders)
    /\ Len(heap) < MaxHeap
    /\ heap' = Append(heap, ret.folders[k])
    /\ UNCHANGED <<access_token, pc, frame, sent, nsent, resp, ret>>

\* The Account's access token is replaced (a refreshed token).
SetToken(a, t) ==
    /\ access_token[a] # t
    /\ access_token' = [access_token EXCEPT ![a] = t]
    /\ UNCHANGED <<heap, pc, frame, sent, nsent, resp, ret>>

-----------------------------------------------------------------------------
(* The client: one caller, one call at a time *)

NoCall == [op |-> "none", self |-> 0, arg |-> NoArg]

Init ==
    /\ access_token = [a \in Accounts |-> <<"tok0">>]
    /\ \E a \in Accounts : heap = <<_json_to_folder(a, FA).folder>>
    /\ pc = "idle"
    /\ frame = NoCall
    /\ sent = <<>>
    /\ nsent = 0
    /\ resp = NoResponse
    /\ ret = Pending

Next ==
    \/ \E i \in 1..Len(heap), s \in ArgStrings : rename_folder_call(i, s)
    \/ rename_folder_return
    \/ \E i \in 1..Len(heap) : get_subfolders_call(i)
    \/ get_subfolders_return
    \/ \E i \in 1..Len(heap) : delete_folder_call(i)
    \/ delete_folder_return
    \/ \E i \in 1..Len(heap), s \in ArgStrings : move_folder_call(i, s)
    \/ move_folder_return
    \/ \E i \in 1..Len(heap), s \in ArgStrings : copy_folder_call(i, s)
    \/ copy_folder_return
    \/ \E i \in 1..Len(heap), s \in ArgStrings : create_child_folder_call(i, s)
    \/ create_child_folder_return
    \/ \E i \in 1..Len(heap) : messages_call(i)
    \/ messages_return
    \/ KeepFolder
    \/ \E k \in 1..MaxList : KeepSubfolder(k)
    \/ \E a \in Accounts, t \in Tokens : SetToken(a, t)

Spec == Init /\ [][Next]_vars

-----------------------------------------------------------------------------
(* _json_to_folder on its own, over every folder object of a small universe *)

JSONStrings == {<<"AAA">>, <<"Inbox">>}

CompleteJSON ==
    {FolderJSON(i, n, p, c, u, t) :
        i \in JSONStrings, n \in JSONStrings, p \in JSONStrings,
        c \in 0..MaxCount, u \in 0..MaxCount, t \in 0..MaxCount}

\* The complete objects, the same with a field the client does not know, and
\* the same with one of the six fields left out.
DecodeInputs ==
    CompleteJSON
    \cup {j @@ [WellKnownName |-> <<"inbox">>] : j \in CompleteJSON}
    \cup {[key \in DOMAIN j \ {FolderKeys[k]} |-> j[key]] :
              j \in CompleteJSON, k \in 1..Len(FolderKeys)}

decode_folder(account, json_value) ==
    /\ frame = NoCall
    /\ frame' = [op |-> "_json_to_folder", self |-> 0,
                 arg |-> [account |-> account, json_value |-> json_value]]
    /\ ret' = Outcome(FALSE, _json_to_folder(account, json_value))
    /\ UNCHANGED <<access_token, heap, pc, sent, nsent, resp>>

DecodeNext == \E a \in Accounts, j \in DecodeInputs : decode_folder(a, j)

SpecDecode == Init /\ [][DecodeNext]_vars

-----------------------------------------------------------------------------
(* Vocabulary of the properties *)

\* The call of method op has ended (returned or raised).
Ended(op) == pc = "idle" /\ frame.op = op

BandOps == {"rename_folder", "move_folder", "copy_folder", "create_child_folder",
            "delete_folder", "get_subfolders"}
FolderOps == {"rename_folder", "move_folder", "copy_folder", "create_child_folder"}

InBand(status_code) == 400 <= status_code /\ status_code <= 451

\* The number a message shows: its digit units, read as a decimal numeral.
IsDigit(u) == \E d \in 1..10 : Digits[d] = u
DigitValue(u) == (CHOOSE d \in 1..10 : Digits[d] = u) - 1

RECURSIVE Decimal(_)
Decimal(ds) ==
    IF ds = <<>> THEN 0
    ELSE 10 * Decimal(SubSeq(ds, 1, Len(ds) - 1)) + DigitValue(ds[Len(ds)])

StatusShown(message) == Decimal(SelectSeq(message, IsDigit))

\* json_value is a JSON object with the six fields of a folder.
IsFolderJSON(json_value) ==
    \A k \in 1..Len(FolderKeys) : FolderKeys[k] \in DOMAIN json_value

\* Folder f holds the six fields of json_value, each in its own attribute.
MapsTo(json_value, f) ==
    /\ f.id = json_value["Id"]
    /\ f.name = json_value["DisplayName"]
    /\ f.parent_id = json_value["ParentFolderId"]
    /\ f.child_folder_count = json_value["ChildFolderCount"]
    /\ f.unread_count = json_value["UnreadItemCount"]
    /\ f.total_items = json_value["TotalItemCount"]

IsFolderBody(body) == body.kind = "json" /\ IsFolderJSON(body.value)

\* body is {"value": [...]}; with folders, every element is a folder object.
IsListBody(body, folders) ==
    /\ body.kind = "json"
    /\ "value" \in DOMAIN body.value
    /\ folders => \A k \in 1..Len(body.value["value"]) : IsFolderJSON(body.value["value"][k])

-----------------------------------------------------------------------------
\* C1: a status code s with 400 <= s <= 451 makes each of rename_folder,
\* move_folder, copy_folder, create_child_folder, delete_folder and
\* get_subfolders raise AuthError with s in its message, without calling
\* r.json() (so no Folder is built or returned).
C1_BandRaisesAuthError ==
    \A op \in BandOps :
        (Ended(op) /\ InBand(resp.status_code)) =>
            /\ ret.kind = "AuthError"
            /\ StatusShown(ret.message) = resp.status_code
            /\ ~ret.json_called

C1_Witness ==
    /\ Ended("delete_folder")
    /\ resp.status_code = 404
    /\ ret.kind = "AuthError"

\* C2: messages raises AuthError exactly when the status is 401; on any other
\* status (400, 404, 451 among them) it calls r.json(), and a body
\* {"value": [m1, ..., mn]} comes back as the n Messages of m1, ..., mn.
C2_MessagesOnly401 ==
    Ended("messages") =>
        /\ (ret.kind = "AuthError") <=> (resp.status_code = 401)
        /\ resp.status_code # 401 =>
            /\ ret.json_called
            /\ IsListBody(resp.body, FALSE) =>
                /\ ret.kind = "Messages"
                /\ Len(ret.messages) = Len(resp.body.value["value"])
                /\ \A k \in 1..Len(ret.messages) :
                       ret.messages[k].json = resp.body.value["value"][k]

C2_Witness ==
    /\ Ended("messages")
    /\ resp.status_code = 400
    /\ ret.kind = "Messages"
    /\ Len(ret.messages) = 2

\* What a method that decodes does on a status outside the band: no
\* AuthError, r.json() is called, and a body of the expected shape comes back
\* as the mapped Folder (rename, move, copy, create_child) or Folders
\* (get_subfolders).
DecodesAndReturns(op) ==
    /\ ret.kind # "AuthError"
    /\ ret.json_called
    /\ (op \in FolderOps /\ IsFolderBody(resp.body)) =>
           ret.kind = "Folder" /\ MapsTo(resp.body.value, ret.folder)
    /\ (op = "get_subfolders" /\ IsListBody(resp.body, TRUE)) =>
           /\ ret.kind = "Folders"
           /\ Len(ret.folders) = Len(resp.body.value["value"])
           /\ \A k \in 1..Len(ret.folders) :
                  MapsTo(resp.body.value["value"][k], ret.folders[k])

\* C3 as claimed: on a status outside the band (s <= 399 or s >= 452) each of
\* the six methods, delete_folder included, raises no AuthError, calls
\* r.json() and returns the mapped object(s).
C3_AsClaimed ==
    \A op \in BandOps :
        (Ended(op) /\ ~InBand(resp.status_code)) => DecodesAndReturns(op)

\* C3 as amended: on a status outside the band, rename_folder, move_folder,
\* copy_folder, create_child_folder and get_subfolders raise no AuthError,
\* call r.json() and return the mapped object(s); delete_folder raises no
\* AuthError either, but never calls r.json() and returns None.
C3_OutsideBand ==
    \A op \in BandOps :
        (Ended(op) /\ ~InBand(resp.status_code)) =>
            IF op = "delete_folder"
            THEN ret.kind = "None" /\ ~ret.json_called
            ELSE DecodesAndReturns(op)

C3_Witness ==
    /\ Ended("move_folder")
    /\ resp.status_code = 452
    /\ ret.kind = "Folder"

\* C4: a JSON object with the six fields Id, DisplayName, ParentFolderId,
\* ChildFolderCount, UnreadItemCount, TotalItemCount decodes to a Folder whose
\* id, name, parent_id, child_folder_count, unread_count, total_items are
\* those six values, each in its own place, whatever other fields it has.
C4_DecodeKeepsFields ==
    (frame.op = "_json_to_folder" /\ IsFolderJSON(frame.arg.json_value)) =>
        /\ ret.kind = "Folder"
        /\ MapsTo(frame.arg.json_value, ret.folder)

C4_Witness ==
    /\ frame.op = "_json_to_folder"
    /\ DOMAIN frame.arg.json_value # {FolderKeys[k] : k \in 1..Len(FolderKeys)}
    /\ ret.kind = "Folder"
    /\ ret.folder.id # ret.folder.name
    /\ ret.folder.unread_count # ret.folder.total_items

\* C5: get_subfolders on a status outside the band and a body
\* {"value": [f1, ..., fn]} returns n Folders, the i-th holding the fields of
\* fi: the length and the order of the array are kept (n = 0: no Folder).
C5_SubfoldersInOrder ==
    (Ended("get_subfolders") /\ ~InBand(resp.status_code) /\ IsListBody(resp.body, TRUE)) =>
        /\ ret.kind = "Folders"
        /\ Len(ret.folders) = Len(resp.body.value["value"])
        /\ \A k \in 1..Len(ret.folders) :
               MapsTo(resp.body.value["value"][k], ret.folders[k])

C5_Witness ==
    /\ Ended("get_subfolders")
    /\ ret.kind = "Folders"
    /\ Len(ret.folders) = 2
    /\ ret.folders[1].id = <<"BBB">>
    /\ ret.folders[2].id = <<"AAA">>

\* C6: a call of any of the seven methods issues one HTTP request, no more
\* and no fewer: the request is on the wire before any response is looked
\* at, and once the call has ended, by a return or by a raise, one request
\* is all it has sent.
C6_OneRequestPerCall ==
    /\ pc # "idle" => nsent = 1 /\ Len(sent) = 1 /\ resp = NoResponse
    /\ (pc = "idle" /\ frame.op # "none") => nsent = 1 /\ sent = <<>>

C6_Witness ==
    /\ Ended("rename_folder")
    /\ ret.kind = "AuthError"
    /\ nsent = 1

-----------------------------------------------------------------------------
(* Reading a request body back, as the server's JSON parser does, for a body
   that is one object with one string member: { "key": "string"} *)

Invalid == [ok |-> FALSE]

\* The character a backslash escape stands for (the one-letter escapes).
Escapes == {"\"", "\\", "/", "b", "f", "n", "r", "t"}
Unescape(u) ==
    CASE u = "b" -> "<BS>" [] u = "f" -> "<FF>" [] u = "n" -> "<LF>"
      [] u = "r" -> "<CR>" [] u = "t" -> "<TAB>" [] OTHER -> u

\* The string literal whose opening quote precedes text[p]: its characters
\* (after acc) up to the closing quote, and the position after that quote.
RECURSIVE ScanString(_, _, _)
ScanString(text, p, acc) ==
    IF p > Len(text) THEN Invalid
    ELSE IF text[p] = "\"" THEN [ok |-> TRUE, value |-> acc, next |-> p + 1]
    ELSE IF text[p] = "\\"
         THEN IF p + 1 > Len(text) \/ text[p + 1] \notin Escapes THEN Invalid
              ELSE ScanString(text, p + 2, Append(acc, Unescape(text[p + 1])))
    ELSE ScanString(text, p + 1, Append(acc, text[p]))

ParseMember(text) ==
    IF \/ Len(text) < 10
       \/ SubSeq(text, 1, 3) # <<"{", " ", "\"">>
       \/ SubSeq(text, 5, 8) # <<"\"", ":", " ", "\"">>
    THEN Invalid
    ELSE LET s == ScanString(text, 9, <<>>)
         IN IF ~s.ok THEN Invalid
            ELSE IF SubSeq(text, s.next, Len(text)) # <<"}">> THEN Invalid
            ELSE [ok |-> TRUE, key |-> text[4], value |-> s.value]

\* The request on the wire is method on MailFolders/{id}{suffix}, with a body
\* that is the JSON object {key: the call's argument}, or with no body.
RequestIs(method, suffix, key) ==
    LET req == sent[1]
    IN /\ req.method = method
       /\ req.url = MailFolders \o heap[frame.self].id \o suffix
       /\ IF key = "" THEN "data" \notin DOMAIN req
          ELSE /\ "data" \in DOMAIN req
               /\ ParseMember(req.data) = [ok |-> TRUE, key |-> key, value |-> frame.arg]

\* C7: the request of each method is the one of the operations table:
\* rename PATCH /{id} with DisplayName = new_name; list_subfolders GET
\* /{id}/childfolders, no body; delete DELETE /{id}, no body; move POST
\* /{id}/move and copy POST /{id}/copy with DestinationId = destination_id;
\* create_child POST /{id}/childfolders with DisplayName = name;
\* list_messages GET /{id}/messages, no body.
C7_RequestOfTheTable ==
    /\ pc = "rename_folder" => RequestIs("PATCH", <<>>, "DisplayName")
    /\ pc = "get_subfolders" => RequestIs("GET", <<"/childfolders">>, "")
    /\ pc = "delete_folder" => RequestIs("DELETE", <<>>, "")
    /\ pc = "move_folder" => RequestIs("POST", <<"/move">>, "DestinationId")
    /\ pc = "copy_folder" => RequestIs("POST", <<"/copy">>, "DestinationId")
    /\ pc = "create_child_folder" => RequestIs("POST", <<"/childfolders">>, "DisplayName")
    /\ pc = "messages" => RequestIs("GET", <<"/messages">>, "")

\* C8: no call changes the Folder it is made on, nor any other Folder the
\* caller holds: id, name, parent_id, the three counts and the account stay
\* as they were, whether the call returns or raises; what rename, move, copy
\* and create_child produce is a new Folder, so a call on the old one still
\* goes to the old id.
C8_FoldersNeverChange ==
    /\ [][/\ Len(heap') >= Len(heap)
          /\ \A i \in 1..Len(heap) : heap'[i] = heap[i]]_vars
    /\ [](pc # "idle" =>
             SubSeq(sent[1].url, 1, 2) = MailFolders \o heap[frame.self].id)

C8_Witness ==
    /\ Len(heap) = 2
    /\ heap[2].id # heap[1].id
    /\ pc = "rename_folder"
    /\ frame.self = 1

\* C9: every request carries Authorization: Bearer <token> and Content-Type:
\* application/json and nothing else, the token being the one the receiver's
\* Account holds when the call is made, also after the Account was given
\* another token.
C9_HeadersOfTheCall ==
    [][(pc = "idle" /\ pc' # "idle") =>
          /\ DOMAIN sent'[1].headers = {"Authorization", "Content-Type"}
          /\ sent'[1].headers["Authorization"]
                 = <<"Bearer ">> \o access_token[heap[frame'.self].account]
          /\ sent'[1].headers["Content-Type"] = <<"application/json">>]_vars

C9_Witness ==
    /\ Len(heap) = 2
    /\ pc = "messages"
    /\ sent[1].headers["Authorization"] = <<"Bearer ", "tok1">>

\* C10: every Folder and every Message a call produces is bound to the
\* Account of the Folder the call was made on, and so is every Folder reached
\* by calls on the Folders produced: all are bound to the Account of the
\* first.
C10_SameAccount ==
    /\ \A i \in 1..Len(heap) : heap[i].account = heap[1].account
    /\ ret.kind = "Folder" => ret.folder.account = heap[frame.self].account
    /\ ret.kind = "Folders" =>
           \A k \in 1..Len(ret.folders) :
               ret.folders[k].account = heap[frame.self].account
    /\ ret.kind = "Messages" =>
           \A k \in 1..Len(ret.messages) :
               ret.messages[k].account = heap[frame.self].account

C10_Witness ==
    /\ Ended("copy_folder")
    /\ frame.self = 2
    /\ ret.kind = "Folder"
    /\ ret.folder.account = "acct2"

====
